---- MODULE Spec2Model ----
(***************************************************************************)
(* A model of the move-search subsystem of the competitive-sudoku agent    *)
(* team71_A1: the constraint oracle (rules.py), the region scanner and the *)
(* heuristic evaluator (heuristics.py) and the iterative-deepening         *)
(* alpha-beta search with its scoring model (sudokuai.py).                 *)
(*                                                                         *)
(* Conventions.  Python lists indexed from 0 are functions on 0..k-1 when  *)
(* they are indexed by position (board.squares, the oracle's masks, the    *)
(* scanner's region arrays) and sequences when they are iterated or        *)
(* appended to.  A float is the integer Scale times its value: every       *)
(* float of the program is a multiple of 1/Scale on boards up to 6x6, and  *)
(* rounding of the float sums is not modelled.                             *)
(***************************************************************************)
EXTENDS Integers, Sequences, FiniteSets, TLC

VARIABLES
    game_state,    \* the GameState compute_best_move / the operations are given
    pc,            \* position in compute_best_move (or "idle" between operations)
    my_player_id,  \* sudokuai.py:27
    legal_moves,   \* the sorted root move list, sudokuai.py:38-41
    depth,         \* iterative-deepening depth, sudokuai.py:48
    move_i,        \* position of the for loop over legal_moves, sudokuai.py:55
    best_move,     \* sudokuai.py:50
    best_score,    \* sudokuai.py:51
    alpha,         \* sudokuai.py:52
    proposed,      \* every move handed to propose_move, in order
    last           \* the last operation applied and what it returned

vars == <<game_state, pc, my_player_id, legal_moves, depth, move_i, best_move,
          best_score, alpha, proposed, last>>

None == "None"

\* best_move = None
NoMove == [square |-> <<>>, value |-> 0]

----------------------------------------------------------------------------
(* Numbers *)

\* floats are held as integer multiples of 1/Scale (1.0/options, options in 3..6)
Scale == 60

NegInf == -1000000000

PosInf == 1000000000

Max(a, b) == IF a >= b THEN a ELSE b

Min(a, b) == IF a <= b THEN a ELSE b

\* 1 << (val - 1)
Bit(val) == 2 ^ (val - 1)

\* x & mask, mask a single bit
AndBit(x, mask) == ((x \div mask) % 2) * mask

\* x |= mask, mask a single bit
OrBit(x, mask) == IF AndBit(x, mask) # 0 THEN x ELSE x + mask

RECURSIVE BitOr(_, _)
\* a | b
BitOr(a, b) ==
    IF a = 0 THEN b
    ELSE IF b = 0 THEN a
    ELSE (IF a % 2 = 1 \/ b % 2 = 1 THEN 1 ELSE 0) + 2 * BitOr(a \div 2, b \div 2)

----------------------------------------------------------------------------
(* The host's board and game state, as the agent uses them *)

\* board.put(square, value)
put(board, square, value) ==
    [board EXCEPT !.squares[board.N * square[1] + square[2]] = value]

Move(square, value) == [square |-> square, value |-> value]

\* game_state.player_squares(): the cells the player to move may fill
player_squares(gs) ==
    IF gs.current_player = 1 THEN gs.allowed_squares1 ELSE gs.allowed_squares2

----------------------------------------------------------------------------
(* rules.py: LocalOracle *)

get_box_index(o, r, c) ==
    LET br == r \div o.m
        bc == c \div o.n
    IN  br * o.m + bc

mark_constraints(o, r, c, val) ==
    LET mask == Bit(val)
        b == get_box_index(o, r, c)
    IN  [o EXCEPT !.rows[r] = OrBit(@, mask),
                  !.cols[c] = OrBit(@, mask),
                  !.boxes[b] = OrBit(@, mask)]

RECURSIVE OracleScan(_, _)
\* the double loop of __init__ over i, j from cell idx = N*i + j on
OracleScan(o, idx) ==
    IF idx >= o.N * o.N THEN o
    ELSE LET i == idx \div o.N
             j == idx % o.N
             val == o.board.squares[idx]
         IN  OracleScan(IF val # 0 THEN mark_constraints(o, i, j, val) ELSE o, idx + 1)

LocalOracle(board_object, taboo_moves) ==
    OracleScan(
        [board |-> board_object,
         N |-> board_object.N,
         m |-> board_object.m,
         n |-> board_object.n,
         rows |-> [i \in 0..(board_object.N - 1) |-> 0],
         cols |-> [i \in 0..(board_object.N - 1) |-> 0],
         boxes |-> [i \in 0..(board_object.N - 1) |-> 0],
         taboo_set |-> {<<taboo_moves[k].square[1], taboo_moves[k].square[2],
                          taboo_moves[k].value>> : k \in 1..Len(taboo_moves)}],
        0)

is_valid_sudoku_move(o, r, c, val) ==
    LET mask == Bit(val)
    IN  IF AndBit(o.rows[r], mask) # 0 THEN FALSE
        ELSE IF AndBit(o.cols[c], mask) # 0 THEN FALSE
        ELSE IF AndBit(o.boxes[get_box_index(o, r, c)], mask) # 0 THEN FALSE
        ELSE TRUE

\* the inner loop without its taboo test
CellMovesNoTaboo(o, r, c) ==
    LET Keep(val) == is_valid_sudoku_move(o, r, c, val)
        vals == SelectSeq([val \in 1..o.N |-> val], Keep)
    IN  [k \in 1..Len(vals) |-> <<r, c, vals[k]>>]

\* the inner loop of get_legal_moves over val for one candidate cell
CellMoves(o, r, c) ==
    LET Keep(val) == is_valid_sudoku_move(o, r, c, val) /\ <<r, c, val>> \notin o.taboo_set
        vals == SelectSeq([val \in 1..o.N |-> val], Keep)
    IN  [k \in 1..Len(vals) |-> <<r, c, vals[k]>>]

RECURSIVE LegalFrom(_, _, _)
LegalFrom(o, allowed_squares, k) ==
    IF k > Len(allowed_squares) THEN <<>>
    ELSE LET r == allowed_squares[k][1]
             c == allowed_squares[k][2]
         IN  (IF o.board.squares[o.N * r + c] # 0 THEN <<>> ELSE CellMoves(o, r, c))
             \o LegalFrom(o, allowed_squares, k + 1)

get_legal_moves(o, allowed_squares) == LegalFrom(o, allowed_squares, 1)

----------------------------------------------------------------------------
(* heuristics.py: Heuristics *)

RegionRecord == [zeros |-> 0, empty_indices |-> <<>>, used_mask |-> 0]

\* the block index with the block width used for the block row
ScanBlockIndexSwapped(N, n, m, r, c) ==
    LET blocks_per_row == N \div m
        b_row == r \div m
        b_col == c \div m
    IN  b_row * blocks_per_row + b_col

\* b_idx = b_row * blocks_per_row + b_col
ScanBlockIndex(N, n, m, r, c) ==
    LET blocks_per_row == N \div m
        b_row == r \div n
        b_col == c \div m
    IN  b_row * blocks_per_row + b_col

RECURSIVE RegionScan(_, _, _, _, _, _)
\* the double loop of get_region_status over r, c from cell idx = r*N + c on
RegionScan(a, board, N, n, m, idx) ==
    IF idx >= N * N THEN a
    ELSE LET r == idx \div N
             c == idx % N
             val == board[idx]
             b_idx == ScanBlockIndex(N, n, m, r, c)
             Empty(rec) == [rec EXCEPT !.zeros = @ + 1,
                                       !.empty_indices = Append(@, <<r, c>>)]
             Used(rec) == [rec EXCEPT !.used_mask = OrBit(@, Bit(val))]
         IN  RegionScan(
                 IF val = 0
                 THEN [rows |-> [a.rows EXCEPT ![r] = Empty(@)],
                       cols |-> [a.cols EXCEPT ![c] = Empty(@)],
                       blocks |-> [a.blocks EXCEPT ![b_idx] = Empty(@)]]
                 ELSE [rows |-> [a.rows EXCEPT ![r] = Used(@)],
                       cols |-> [a.cols EXCEPT ![c] = Used(@)],
                       blocks |-> [a.blocks EXCEPT ![b_idx] = Used(@)]],
                 board, N, n, m, idx + 1)

get_region_status(board, N, n, m) ==
    RegionScan([rows |-> [i \in 0..(N - 1) |-> RegionRecord],
                cols |-> [i \in 0..(N - 1) |-> RegionRecord],
                blocks |-> [i \in 0..(N - 1) |-> RegionRecord]],
               board, N, n, m, 0)

W_SNIPE == 100

W_DEFEND == 120

W_MOBILITY == 2

InList(x, list) == \E k \in 1..Len(list) : list[k] = x

RECURSIVE SumSeq(_)
SumSeq(s) == IF s = <<>> THEN 0 ELSE Head(s) + SumSeq(Tail(s))

\* one iteration of the loop of calculate_sniping_score
SnipeRegion(region, my_allowed, opp_allowed) ==
    IF region.zeros = 1
    THEN LET target_cell == region.empty_indices[1]
             can_i_reach == InList(target_cell, my_allowed)
             can_opp_reach == InList(target_cell, opp_allowed)
         IN  IF can_i_reach /\ ~can_opp_reach THEN W_SNIPE * Scale
             ELSE IF can_opp_reach /\ ~can_i_reach THEN -(W_DEFEND * Scale)
             ELSE IF can_i_reach /\ can_opp_reach THEN (W_SNIPE * Scale) \div 2
             ELSE 0
    ELSE 0

calculate_sniping_score(analysis, my_allowed, opp_allowed) ==
    LET Regions(arr) == SumSeq([k \in 1..Cardinality(DOMAIN arr) |->
                                   SnipeRegion(arr[k - 1], my_allowed, opp_allowed)])
    IN  Regions(analysis.rows) + Regions(analysis.cols) + Regions(analysis.blocks)

\* the counting loops of calculate_mobility_score
CountEmpty(board, N, allowed) ==
    SumSeq([k \in 1..Len(allowed) |->
               IF board[allowed[k][1] * N + allowed[k][2]] = 0 THEN 1 ELSE 0])

calculate_mobility_score(board, N, my_allowed, opp_allowed) ==
    LET my_count == CountEmpty(board, N, my_allowed)
        opp_count == CountEmpty(board, N, opp_allowed)
        diff == my_count - opp_count
    IN  W_MOBILITY * Scale * diff

_count_valid_options(used_mask, N) ==
    SumSeq([k \in 1..N |-> IF AndBit(used_mask, 2 ^ (k - 1)) = 0 THEN 1 ELSE 0])

\* one iteration of the loop of calculate_lrv_score
LrvCell(board, analysis, N, n, m, cell) ==
    LET r == cell[1]
        c == cell[2]
    IN  IF board[r * N + c] # 0 THEN 0
        ELSE LET blocks_per_row == N \div m
                 b_row == r \div n
                 b_col == c \div m
                 b_idx == b_row * blocks_per_row + b_col
                 r_mask == analysis.rows[r].used_mask
                 c_mask == analysis.cols[c].used_mask
                 b_mask == analysis.blocks[b_idx].used_mask
                 total_mask == BitOr(BitOr(r_mask, c_mask), b_mask)
                 options == _count_valid_options(total_mask, N)
             IN  IF options = 1 THEN 5 * Scale
                 ELSE IF options = 2 THEN 2 * Scale
                 ELSE IF options > 2 THEN Scale \div options
                 ELSE -(10 * Scale)

calculate_lrv_score(board, analysis, N, n, m, my_allowed) ==
    SumSeq([k \in 1..Len(my_allowed) |-> LrvCell(board, analysis, N, n, m, my_allowed[k])])

Heuristics_evaluate_board(board, N, n, m, my_allowed, opp_allowed) ==
    LET analysis == get_region_status(board, N, n, m)
        sniping == calculate_sniping_score(analysis, my_allowed, opp_allowed)
        mobility == calculate_mobility_score(board, N, my_allowed, opp_allowed)
        lrv == calculate_lrv_score(board, analysis, N, n, m, my_allowed)
    IN  sniping + mobility + lrv

----------------------------------------------------------------------------
(* sudokuai.py: the completion/scoring model *)

\* the indices the block loop of _check_regions_completion visits
CompletionBlock(board, r, c) ==
    LET b_row_start == (r \div board.n) * board.n
        b_col_start == (c \div board.m) * board.m
    IN  {(b_row_start + bi) * board.N + (b_col_start + bj) :
            bi \in 0..(board.n - 1), bj \in 0..(board.m - 1)}

_check_regions_completion(board, r, c, is_hypothetical) ==
    LET N == board.N
        board_arr == board.squares
        target_idx == r * N + c
        is_filled(idx) == board_arr[idx] # 0 \/ (is_hypothetical /\ idx = target_idx)
        row_start == r * N
        row_full == \A i \in row_start..(row_start + N - 1) : is_filled(i)
        col_full == \A i \in 0..(N - 1) : is_filled(c + i * N)
        block_full == \A idx \in CompletionBlock(board, r, c) : is_filled(idx)
    IN  (IF row_full THEN 1 ELSE 0) + (IF col_full THEN 1 ELSE 0)
        + (IF block_full THEN 1 ELSE 0)

\* one point per completed region
PointsLinear(regions_count) == regions_count

_map_points_to_score(regions_count) ==
    IF regions_count = 1 THEN 1
    ELSE IF regions_count = 2 THEN 3
    ELSE IF regions_count = 3 THEN 7
    ELSE 0

\* the prediction made as if the move were already on the board
PointsNotHypothetical(gs, move) ==
    _map_points_to_score(
        _check_regions_completion(gs.board, move.square[1], move.square[2], FALSE))

_get_immediate_points(gs, move) ==
    LET r == move.square[1]
        c == move.square[2]
        regions_completed == _check_regions_completion(gs.board, r, c, TRUE)
    IN  _map_points_to_score(regions_completed)

\* the state of the object apply_move was given, after the call
apply_move(gs, move) ==
    LET r == move.square[1]
        c == move.square[2]
        val == move.value
        placed == put(gs.board, move.square, val)
        occ1 == IF gs.current_player = 1 /\ gs.occupied_squares1 # None
                THEN Append(gs.occupied_squares1, move.square)
                ELSE gs.occupied_squares1
        occ2 == IF gs.current_player # 1 /\ gs.occupied_squares2 # None
                THEN Append(gs.occupied_squares2, move.square)
                ELSE gs.occupied_squares2
        regions_completed == _check_regions_completion(placed, r, c, FALSE)
        score_add == _map_points_to_score(regions_completed)
        player_idx == gs.current_player - 1
    IN  [gs EXCEPT !.board = placed,
                   !.occupied_squares1 = occ1,
                   !.occupied_squares2 = occ2,
                   !.scores[player_idx] = @ + score_add,
                   !.current_player = 3 - gs.current_player]

W_REAL_SCORE == 1000

\* the current player evaluate_board leaves in the state it was given
RestorePlayer(org_player, flipped) == org_player

\* player_squares() without setting the current player first
SquaresOfCurrent(gs, player) == player_squares(gs)

\* game_state.current_player = player; game_state.player_squares()
SquaresOf(gs, player) == player_squares([gs EXCEPT !.current_player = player])

\* [score: the value returned, game_state: the state given, after the call]
evaluate_board(gs, my_id) ==
    LET my_idx == my_id - 1
        opp_idx == 1 - my_idx
        score_diff == (gs.scores[my_idx] - gs.scores[opp_idx]) * W_REAL_SCORE * Scale
        org_player == gs.current_player
        gs1 == [gs EXCEPT !.current_player = my_id]
        p1_allowed == SquaresOf(gs, my_id)
        gs2 == [gs1 EXCEPT !.current_player = 3 - my_id]
        p2_allowed == SquaresOf(gs1, 3 - my_id)
        gs3 == [gs2 EXCEPT !.current_player = RestorePlayer(org_player, 3 - my_id)]
        heuristic_val == Heuristics_evaluate_board(gs3.board.squares, gs3.board.N,
                             gs3.board.n, gs3.board.m, p1_allowed, p2_allowed)
    IN  [score |-> score_diff + heuristic_val, game_state |-> gs3]

----------------------------------------------------------------------------
(* sudokuai.py: the search *)

RECURSIVE InsertMove(_, _)
\* insert the keyed move x into the list sorted descending by key, after every
\* element whose key is not smaller: list.sort(key=..., reverse=True) is stable
InsertMove(sorted, x) ==
    IF sorted = <<>> THEN <<x>>
    ELSE IF Head(sorted).key >= x.key
         THEN <<Head(sorted)>> \o InsertMove(Tail(sorted), x)
         ELSE <<x>> \o sorted

RECURSIVE SortFrom(_, _, _)
SortFrom(sorted, keyed, k) ==
    IF k > Len(keyed) THEN sorted
    ELSE SortFrom(InsertMove(sorted, keyed[k]), keyed, k + 1)

\* moves.sort(key=lambda m: self._get_immediate_points(game_state, m), reverse=True)
SortMoves(gs, moves) ==
    LET keyed == [k \in 1..Len(moves) |->
                     [key |-> _get_immediate_points(gs, moves[k]), move |-> moves[k]]]
        sorted == SortFrom(<<>>, keyed, 1)
    IN  [k \in 1..Len(sorted) |-> sorted[k].move]

\* [Move((r, c), val) for r, c, val in move_tuples]
ToMoves(move_tuples) ==
    [k \in 1..Len(move_tuples) |->
        Move(<<move_tuples[k][1], move_tuples[k][2]>>, move_tuples[k][3])]

\* the move applied to game_state itself: next_state = game_state
SimulateMoveShared(gs, move) ==
    [game_state |-> apply_move(gs, move), next_state |-> apply_move(gs, move)]

\* next_state = copy.deepcopy(game_state); self.apply_move(next_state, move):
\* the state of game_state and of next_state after the two statements
SimulateMove(gs, move) ==
    LET next_state == gs
    IN  [game_state |-> gs, next_state |-> apply_move(next_state, move)]

\* the comparison of the cut-off the other way round
CutoffInverted(a, b) == a <= b

\* if beta <= alpha: break
Cutoff(a, b) == b <= a

RECURSIVE minimax(_, _, _, _, _, _)
RECURSIVE MaxLoop(_, _, _, _, _, _, _, _)
RECURSIVE MinLoop(_, _, _, _, _, _, _, _)

\* the for loop of the maximizing branch, from moves[k] on
MaxLoop(gs, moves, k, d, a, b, max_eval, my_id) ==
    IF k > Len(moves) THEN [score |-> max_eval, game_state |-> gs]
    ELSE LET sim == SimulateMove(gs, moves[k])
             eval_score == minimax(sim.next_state, d - 1, a, b, FALSE, my_id).score
             new_max == Max(max_eval, eval_score)
             new_a == Max(a, eval_score)
         IN  IF Cutoff(new_a, b)
             THEN [score |-> new_max, game_state |-> sim.game_state]
             ELSE MaxLoop(sim.game_state, moves, k + 1, d, new_a, b, new_max, my_id)

\* the for loop of the minimizing branch, from moves[k] on
MinLoop(gs, moves, k, d, a, b, min_eval, my_id) ==
    IF k > Len(moves) THEN [score |-> min_eval, game_state |-> gs]
    ELSE LET sim == SimulateMove(gs, moves[k])
             eval_score == minimax(sim.next_state, d - 1, a, b, TRUE, my_id).score
             new_min == Min(min_eval, eval_score)
             new_b == Min(b, eval_score)
         IN  IF Cutoff(a, new_b)
             THEN [score |-> new_min, game_state |-> sim.game_state]
             ELSE MinLoop(sim.game_state, moves, k + 1, d, a, new_b, new_min, my_id)

\* [score: the value returned, game_state: the state given, after the call]
minimax(gs, d, a, b, is_maximizing, my_id) ==
    IF d = 0 THEN evaluate_board(gs, my_id)
    ELSE LET oracle == LocalOracle(gs.board, gs.taboo_moves)
             allowed == player_squares(gs)
         IN  IF allowed = <<>> THEN evaluate_board(gs, my_id)
             ELSE LET move_tuples == get_legal_moves(oracle, allowed)
                  IN  IF move_tuples = <<>> THEN evaluate_board(gs, my_id)
                      ELSE LET moves == SortMoves(gs, ToMoves(move_tuples))
                           IN  IF is_maximizing
                               THEN MaxLoop(gs, moves, 1, d, a, b, NegInf, my_id)
                               ELSE MinLoop(gs, moves, 1, d, a, b, PosInf, my_id)

----------------------------------------------------------------------------
(* The inputs: the game states the host hands to the agent *)

\* block shapes (n rows, m columns): N = 2, 4 and 6, square and non-square
Dims == {<<1, 2>>, <<2, 1>>, <<2, 2>>, <<2, 3>>, <<3, 2>>}

\* at most MaxOpen cells of a board are empty
MaxOpen == 3

\* at most MaxTaboo taboo moves
MaxTaboo == 1

\* the candidate lists handed to get_legal_moves hold at most MaxCand cells
MaxCand == 2

\* compute_best_move is stopped from outside once depth MaxDepth is complete
MaxDepth == 3

Cells(N) == {<<r, c>> : r \in 0..(N - 1), c \in 0..(N - 1)}

\* the cells that may be empty: the four corners of the grid
Corners(N) == {<<r, c>> : r \in {0, N - 1}, c \in {0, N - 1}}

\* a completed grid for block height n and block width m
Solution(n, m, r, c) == (((r % n) * m + (r \div n) + c) % (n * m)) + 1

RECURSIVE RowMajor(_, _)
\* the cells of S as a list in row-major order
RowMajor(S, N) ==
    IF S = {} THEN <<>>
    ELSE LET first == CHOOSE x \in S : \A y \in S : x[1] * N + x[2] <= y[1] * N + y[2]
         IN  <<first>> \o RowMajor(S \ {first}, N)

SmallSubsets(S, k) == {T \in SUBSET S : Cardinality(T) <= k}

\* the lists of at most k distinct elements of S
RECURSIVE SmallLists(_, _)
SmallLists(S, k) ==
    IF k = 0 THEN {<<>>}
    ELSE {<<>>} \cup {<<x>> \o rest : x \in S, rest \in SmallLists(S, k - 1)}

Distinct(list) == \A i \in 1..Len(list) : \A j \in 1..Len(list) : list[i] = list[j] => i = j

\* no value occurs twice in a row, a column or an n-row by m-column block
WellFormed(board) ==
    \A x \in Cells(board.N) : \A y \in Cells(board.N) :
        (x # y /\ board.squares[board.N * x[1] + x[2]] # 0
           /\ board.squares[board.N * x[1] + x[2]] = board.squares[board.N * y[1] + y[2]])
        => /\ x[1] # y[1]
           /\ x[2] # y[2]
           /\ ~(x[1] \div board.n = y[1] \div board.n /\ x[2] \div board.m = y[2] \div board.m)

\* the completed grid with the cells of open emptied
DenseBoard(n, m, open) ==
    [N |-> n * m, n |-> n, m |-> m,
     squares |-> [idx \in 0..(n * m * n * m - 1) |->
                    IF <<idx \div (n * m), idx % (n * m)>> \in open THEN 0
                    ELSE Solution(n, m, idx \div (n * m), idx % (n * m))]]

\* the taboo lists on a board: at most MaxTaboo moves, each a move on an open
\* cell that the rules allow (the value of the completed grid)
TabooLists(n, m, open) ==
    {t \in SmallLists({Move(cell, Solution(n, m, cell[1], cell[2])) : cell \in open}, MaxTaboo) :
        Distinct(t)}

\* a game state: each open cell is reachable by player 1 (1), player 2 (2) or both (0)
GameState(board, open, reach, taboo, player) ==
    [board |-> board,
     scores |-> [i \in 0..1 |-> 0],
     occupied_squares1 |-> <<>>,
     occupied_squares2 |-> <<>>,
     taboo_moves |-> taboo,
     current_player |-> player,
     allowed_squares1 |-> RowMajor({cell \in open : reach[cell] # 2}, board.N),
     allowed_squares2 |-> RowMajor({cell \in open : reach[cell] # 1}, board.N)]

\* who reaches the open cells: both players all of them (0), one player all of
\* them, or both all of them but for one cell that only one player reaches
ReachPatterns(open) ==
    {[cell \in open |-> const] : const \in 0..2}
    \cup {[cell \in open |-> IF cell = own THEN p ELSE 0] : own \in open, p \in 1..2}

InitGame ==
    \E dim \in Dims :
      \E open \in SmallSubsets(Corners(dim[1] * dim[2]), MaxOpen) :
        \E reach \in ReachPatterns(open) :
          \E taboo \in TabooLists(dim[1], dim[2], open) :
            \E player \in 1..2 :
              game_state = GameState(DenseBoard(dim[1], dim[2], open), open, reach, taboo, player)

NoOp == [op |-> "none"]

----------------------------------------------------------------------------
(* compute_best_move as a state machine *)

Init ==
    /\ InitGame
    /\ pc = "start"
    /\ my_player_id = None
    /\ legal_moves = <<>>
    /\ depth = 0
    /\ move_i = 0
    /\ best_move = NoMove
    /\ best_score = NegInf
    /\ alpha = NegInf
    /\ proposed = <<>>
    /\ last = NoOp

\* the root move list, sudokuai.py:29-33
RootTuples(gs) == get_legal_moves(LocalOracle(gs.board, gs.taboo_moves), player_squares(gs))

\* lines 27-36: no legal move at the root, return without proposing
ReturnNoMoves ==
    /\ pc = "start"
    /\ RootTuples(game_state) = <<>>
    /\ my_player_id' = game_state.current_player
    /\ pc' = "returned"
    /\ UNCHANGED <<game_state, legal_moves, depth, move_i, best_move, best_score, alpha,
                   proposed, last>>

\* lines 27-48: sort the root moves, propose the first one, depth = 1
ProposeFallback ==
    /\ pc = "start"
    /\ RootTuples(game_state) # <<>>
    /\ my_player_id' = game_state.current_player
    /\ legal_moves' = SortMoves(game_state, ToMoves(RootTuples(game_state)))
    /\ proposed' = Append(proposed, legal_moves'[1])
    /\ depth' = 1
    /\ pc' = "while"
    /\ UNCHANGED <<game_state, move_i, best_move, best_score, alpha, last>>

\* lines 49-55: the top of the while loop
BeginDepth ==
    /\ pc = "while"
    /\ depth <= MaxDepth
    /\ best_move' = NoMove
    /\ best_score' = NegInf
    /\ alpha' = NegInf
    /\ move_i' = 1
    /\ pc' = "for"
    /\ UNCHANGED <<game_state, my_player_id, legal_moves, depth, proposed, last>>

\* lines 55-66: one iteration of the for loop over the root moves
SearchMove ==
    /\ pc = "for"
    /\ move_i <= Len(legal_moves)
    /\ LET move == legal_moves[move_i]
           sim == SimulateMove(game_state, move)
           res == minimax(sim.next_state, depth - 1, alpha, PosInf, FALSE, my_player_id)
           score == res.score
           better == score > best_score
           new_best == IF better THEN score ELSE best_score
       IN  /\ game_state' = sim.game_state
           /\ best_score' = new_best
           /\ best_move' = IF better THEN move ELSE best_move
           /\ alpha' = Max(alpha, new_best)
           /\ last' = [op |-> "minimax", parent |-> game_state, before |-> sim.next_state,
                       after |-> res.game_state, score |-> score]
    /\ move_i' = move_i + 1
    /\ UNCHANGED <<pc, my_player_id, legal_moves, depth, proposed>>

\* lines 68-71: publish the best move of the depth, depth += 1
EndDepth ==
    /\ pc = "for"
    /\ move_i > Len(legal_moves)
    /\ proposed' = IF best_move # NoMove THEN Append(proposed, best_move) ELSE proposed
    /\ depth' = depth + 1
    /\ pc' = "while"
    /\ UNCHANGED <<game_state, my_player_id, legal_moves, move_i, best_move, best_score,
                   alpha, last>>

Next == ReturnNoMoves \/ ProposeFallback \/ BeginDepth \/ SearchMove \/ EndDepth

Spec == Init /\ [][Next]_vars

----------------------------------------------------------------------------
(* The operations one at a time, on the states a search walks through: a     *)
(* state is reached by playing moves ("idle"), then one function is called.  *)

InitOps ==
    /\ InitGame
    /\ pc = "idle"
    /\ my_player_id = None
    /\ legal_moves = <<>>
    /\ depth = 0
    /\ move_i = 0
    /\ best_move = NoMove
    /\ best_score = NegInf
    /\ alpha = NegInf
    /\ proposed = <<>>
    /\ last = NoOp

\* apply_move with a move of the side to move, as minimax does at each node
Play ==
    /\ pc = "idle"
    /\ RootTuples(game_state) # <<>>
    /\ \E k \in 1..Len(RootTuples(game_state)) :
         LET move == ToMoves(RootTuples(game_state))[k]
         IN  /\ game_state' = apply_move(game_state, move)
             /\ last' = [op |-> "apply_move", before |-> game_state, move |-> move,
                         predicted |-> _get_immediate_points(game_state, move)]
    /\ UNCHANGED <<pc, my_player_id, legal_moves, depth, move_i, best_move, best_score,
                   alpha, proposed>>

\* get_legal_moves on a list of candidate cells
Generate ==
    /\ pc = "idle"
    /\ pc' = "called"
    /\ \E cand \in SmallLists(Corners(game_state.board.N), MaxCand) :
         /\ Distinct(cand)
         /\ last' = [op |-> "get_legal_moves", cand |-> cand,
                     result |-> get_legal_moves(
                                    LocalOracle(game_state.board, game_state.taboo_moves),
                                    cand)]
    /\ UNCHANGED <<game_state, my_player_id, legal_moves, depth, move_i, best_move,
                   best_score, alpha, proposed>>

\* get_region_status on the board
Scan ==
    /\ pc = "idle"
    /\ pc' = "called"
    /\ last' = [op |-> "get_region_status",
                result |-> get_region_status(game_state.board.squares, game_state.board.N,
                                             game_state.board.n, game_state.board.m)]
    /\ UNCHANGED <<game_state, my_player_id, legal_moves, depth, move_i, best_move,
                   best_score, alpha, proposed>>

\* evaluate_board for either identity
Evaluate ==
    /\ pc = "idle"
    /\ pc' = "called"
    /\ \E id \in 1..2 :
         LET res == evaluate_board(game_state, id)
         IN  /\ game_state' = res.game_state
             /\ last' = [op |-> "evaluate_board", id |-> id, before |-> game_state,
                         score |-> res.score]
    /\ UNCHANGED <<my_player_id, legal_moves, depth, move_i, best_move, best_score,
                   alpha, proposed>>

NextOps == Play \/ Generate \/ Scan \/ Evaluate

SpecOps == InitOps /\ [][NextOps]_vars

----------------------------------------------------------------------------
(* What the claims are stated with: brute-force scans of the board *)

At(board, r, c) == board.squares[board.N * r + c]

RowCells(board, r) == {<<r, j>> : j \in 0..(board.N - 1)}

ColCells(board, c) == {<<i, c>> : i \in 0..(board.N - 1)}

\* the n-row by m-column block containing (r, c)
BlockCells(board, r, c) ==
    {x \in Cells(board.N) : x[1] \div board.n = r \div board.n
                            /\ x[2] \div board.m = c \div board.m}

ValuesIn(board, S) == {At(board, x[1], x[2]) : x \in S} \ {0}

EmptyIn(board, S) == {x \in S : At(board, x[1], x[2]) = 0}

BruteValid(board, r, c, v) ==
    /\ v \notin ValuesIn(board, RowCells(board, r))
    /\ v \notin ValuesIn(board, ColCells(board, c))
    /\ v \notin ValuesIn(board, BlockCells(board, r, c))

Range(list) == {list[k] : k \in 1..Len(list)}

RECURSIVE PopCount(_)
PopCount(x) == IF x = 0 THEN 0 ELSE (x % 2) + PopCount(x \div 2)

PointsFor(k) == CASE k = 0 -> 0 [] k = 1 -> 1 [] k = 2 -> 3 [] k = 3 -> 7

\* how many of the row, the column and the block of (r, c) have no empty cell
RegionsFull(board, r, c) ==
    (IF EmptyIn(board, RowCells(board, r)) = {} THEN 1 ELSE 0)
    + (IF EmptyIn(board, ColCells(board, c)) = {} THEN 1 ELSE 0)
    + (IF EmptyIn(board, BlockCells(board, r, c)) = {} THEN 1 ELSE 0)

\* a legal move of the side to move in gs
LegalIn(gs, mv) ==
    /\ InList(mv.square, player_squares(gs))
    /\ At(gs.board, mv.square[1], mv.square[2]) = 0
    /\ BruteValid(gs.board, mv.square[1], mv.square[2], mv.value)
    /\ mv \notin Range(gs.taboo_moves)

----------------------------------------------------------------------------
(* C1 *)

\* C1: every move proposed so far (the fallback and the best move of each
\* completed depth) is a legal move of the side to move in the root state: its
\* cell is in the root player's allowed squares and empty, its value occurs
\* neither in the row, the column nor the n-by-m block of the cell, and the move
\* is not taboo; a root without legal moves proposes nothing and returns.
C1_ProposedMovesLegal ==
    /\ \A k \in 1..Len(proposed) : LegalIn(game_state, proposed[k])
    /\ pc = "returned" => proposed = <<>>

----------------------------------------------------------------------------
(* C2 *)

SetMax(S) == CHOOSE x \in S : \A y \in S : y <= x

SetMin(S) == CHOOSE x \in S : \A y \in S : x <= y

RECURSIVE FullMinimax(_, _, _, _)
\* minimax to depth d without any pruning
FullMinimax(gs, d, is_maximizing, my_id) ==
    LET static == evaluate_board(gs, my_id).score
        tuples == get_legal_moves(LocalOracle(gs.board, gs.taboo_moves), player_squares(gs))
    IN  IF d = 0 \/ player_squares(gs) = <<>> \/ tuples = <<>> THEN static
        ELSE LET vals == {FullMinimax(apply_move(gs, mv), d - 1, ~is_maximizing, my_id) :
                             mv \in Range(ToMoves(tuples))}
             IN  IF is_maximizing THEN SetMax(vals) ELSE SetMin(vals)

\* the generated moves by descending immediate points, ties in generation order
OrderedMoves(gs) ==
    LET gen == ToMoves(RootTuples(gs))
        Worth7(mv) == _get_immediate_points(gs, mv) = 7
        Worth3(mv) == _get_immediate_points(gs, mv) = 3
        Worth1(mv) == _get_immediate_points(gs, mv) = 1
        Worth0(mv) == _get_immediate_points(gs, mv) = 0
    IN  SelectSeq(gen, Worth7) \o SelectSeq(gen, Worth3) \o SelectSeq(gen, Worth1)
        \o SelectSeq(gen, Worth0)

\* the first move of OrderedMoves with the strictly greatest full-minimax value
FullBest(gs, d, my_id) ==
    LET moves == OrderedMoves(gs)
        value == [k \in 1..Len(moves) |->
                     FullMinimax(apply_move(gs, moves[k]), d - 1, FALSE, my_id)]
        best == CHOOSE k \in 1..Len(moves) :
                    /\ \A j \in 1..Len(moves) : value[j] <= value[k]
                    /\ \A j \in 1..(k - 1) : value[j] < value[k]
    IN  [move |-> moves[best], score |-> value[best]]

\* C2: at the end of the root loop of every depth, the best move and its score
\* equal those of a full minimax without pruning that visits the root moves by
\* descending immediate points (ties in generation order) and keeps the first
\* move of strictly greatest value.
C2_AlphaBetaEqualsFullMinimax ==
    (pc = "for" /\ move_i > Len(legal_moves)) =>
        /\ legal_moves = OrderedMoves(game_state)
        /\ best_move = FullBest(game_state, depth, my_player_id).move
        /\ best_score = FullBest(game_state, depth, my_player_id).score

\* a root child was cut off: the score it returned is a bound, not its value
C2_Witness ==
    /\ pc = "for"
    /\ last.op = "minimax"
    /\ last.score # FullMinimax(last.before, depth - 1, FALSE, my_player_id)

----------------------------------------------------------------------------
(* C3 *)

\* C3: on a well-formed board, is_valid_sudoku_move(r, c, v) is true exactly
\* when v occurs nowhere in row r, in column c and in the n-row by m-column
\* block of (r, c).
C3_OracleAgreesWithBruteForce ==
    LET board == game_state.board
        o == LocalOracle(board, game_state.taboo_moves)
    IN  WellFormed(board) =>
            \A cell \in Cells(board.N) : \A v \in 1..board.N :
                is_valid_sudoku_move(o, cell[1], cell[2], v)
                    = BruteValid(board, cell[1], cell[2], v)

----------------------------------------------------------------------------
(* C4 *)

Position(x, list) == CHOOSE k \in 1..Len(list) : list[k] = x

\* C4: get_legal_moves returns no taboo triple and no triple on a non-empty
\* cell; every triple has its cell in the candidate list and its value in 1..N;
\* the triples are in candidate-cell order and, within a cell, ascending value.
C4_LegalMovesSafeAndOrdered ==
    last.op = "get_legal_moves" =>
        LET res == last.result
            cand == last.cand
            board == game_state.board
        IN  /\ \A k \in 1..Len(res) :
                   /\ Move(<<res[k][1], res[k][2]>>, res[k][3]) \notin Range(game_state.taboo_moves)
                   /\ At(board, res[k][1], res[k][2]) = 0
                   /\ InList(<<res[k][1], res[k][2]>>, cand)
                   /\ res[k][3] \in 1..board.N
            /\ \A i \in 1..Len(res) : \A j \in (i + 1)..Len(res) :
                   \/ Position(<<res[i][1], res[i][2]>>, cand)
                        < Position(<<res[j][1], res[j][2]>>, cand)
                   \/ /\ res[i][1] = res[j][1]
                      /\ res[i][2] = res[j][2]
                      /\ res[i][3] < res[j][3]

\* two candidate cells against the row-major order both yield moves, and a
\* taboo move on one of them was left out though the oracle finds it valid
C4_Witness ==
    /\ last.op = "get_legal_moves"
    /\ Len(last.cand) = 2
    /\ last.cand[1][1] * game_state.board.N + last.cand[1][2]
         > last.cand[2][1] * game_state.board.N + last.cand[2][2]
    /\ \A k \in 1..2 : \E i \in 1..Len(last.result) :
           <<last.result[i][1], last.result[i][2]>> = last.cand[k]
    /\ \E t \in Range(game_state.taboo_moves) :
           /\ InList(t.square, last.cand)
           /\ is_valid_sudoku_move(LocalOracle(game_state.board, game_state.taboo_moves),
                                   t.square[1], t.square[2], t.value)

----------------------------------------------------------------------------
(* C5 *)

\* C5: for every empty cell and every value, the regions counted hypothetically
\* before the move equal the regions counted on the board after it, and the
\* points a move is ordered by equal the points apply_move awards for it.
C5_PredictionMatchesAward ==
    pc = "idle" =>
        /\ \A cell \in EmptyIn(game_state.board, Cells(game_state.board.N)) :
             \A v \in 1..game_state.board.N :
               /\ _check_regions_completion(game_state.board, cell[1], cell[2], TRUE)
                    = _check_regions_completion(put(game_state.board, cell, v),
                                                cell[1], cell[2], FALSE)
               /\ _get_immediate_points(game_state, Move(cell, v))
                    = apply_move(game_state, Move(cell, v)).scores[game_state.current_player - 1]
                        - game_state.scores[game_state.current_player - 1]
        /\ last.op = "apply_move" =>
             last.predicted = game_state.scores[last.before.current_player - 1]
                                - last.before.scores[last.before.current_player - 1]

\* a move predicted to score was played
C5_Witness ==
    /\ last.op = "apply_move"
    /\ last.predicted = 7
    /\ EmptyIn(game_state.board, Cells(game_state.board.N)) # {}

----------------------------------------------------------------------------
(* C6 *)

\* C6: apply_move adds points_for(k) to the mover's score, k the number of
\* regions of the played cell that are full after the placement (0->0, 1->1,
\* 2->3, 3->7), leaves the other score alone, appends the cell to the mover's
\* occupied squares only, and flips the current player.
C6_ApplyMoveAwardsPointsFor ==
    last.op = "apply_move" =>
        LET b == last.before
            a == game_state
            p == b.current_player
            k == RegionsFull(a.board, last.move.square[1], last.move.square[2])
        IN  /\ At(a.board, last.move.square[1], last.move.square[2]) = last.move.value
            /\ a.scores[p - 1] = b.scores[p - 1] + PointsFor(k)
            /\ a.scores[2 - p] = b.scores[2 - p]
            /\ p = 1 => /\ a.occupied_squares1 = Append(b.occupied_squares1, last.move.square)
                        /\ a.occupied_squares2 = b.occupied_squares2
            /\ p = 2 => /\ a.occupied_squares2 = Append(b.occupied_squares2, last.move.square)
                        /\ a.occupied_squares1 = b.occupied_squares1
            /\ a.current_player = 3 - p

\* a move that completed exactly two regions was applied and scored 3
C6_Witness ==
    /\ last.op = "apply_move"
    /\ RegionsFull(game_state.board, last.move.square[1], last.move.square[2]) = 2
    /\ game_state.scores[last.before.current_player - 1]
         = last.before.scores[last.before.current_player - 1] + 3

----------------------------------------------------------------------------
(* C7 *)

\* the cells of the block with index k, numbered b_row * (N / m) + b_col
BlockOfIndex(board, k) ==
    {x \in Cells(board.N) :
        (x[1] \div board.n) * (board.N \div board.m) + (x[2] \div board.m) = k}

RegionRecordOk(board, rec, S) ==
    /\ rec.zeros + PopCount(rec.used_mask) = board.N
    /\ Len(rec.empty_indices) = rec.zeros
    /\ Range(rec.empty_indices) = EmptyIn(board, S)

\* C7: on a board without a value twice in a row, column or block, each of the
\* 3N region records has zeros + popcount(used_mask) = N, len(empty_indices) =
\* zeros, and empty_indices lists exactly the empty cells of the region.
C7_RegionRecordsConsistent ==
    (last.op = "get_region_status" /\ WellFormed(game_state.board)) =>
        \A k \in 0..(game_state.board.N - 1) :
            /\ RegionRecordOk(game_state.board, last.result.rows[k],
                              RowCells(game_state.board, k))
            /\ RegionRecordOk(game_state.board, last.result.cols[k],
                              ColCells(game_state.board, k))
            /\ RegionRecordOk(game_state.board, last.result.blocks[k],
                              BlockOfIndex(game_state.board, k))

\* a well-formed board with non-square blocks was scanned: a row of it with two
\* empty cells, a block of it with one empty cell and five values
C7_Witness ==
    /\ last.op = "get_region_status"
    /\ WellFormed(game_state.board)
    /\ game_state.board.n # game_state.board.m
    /\ game_state.board.N = 6
    /\ \E k \in 0..(game_state.board.N - 1) : last.result.rows[k].zeros = 2
    /\ \E k \in 0..(game_state.board.N - 1) :
           /\ last.result.blocks[k].zeros = 1
           /\ PopCount(last.result.blocks[k].used_mask) = 5

----------------------------------------------------------------------------
(* C8 *)

\* C8: for every cell, the oracle's row, column and box masks equal the
\* scanner's row, column and block used_mask, and the cells the oracle puts in
\* the box of the cell are the cells _check_regions_completion takes as its
\* block.
C8_OracleEquivalentToScanner ==
    LET board == game_state.board
        o == LocalOracle(board, game_state.taboo_moves)
        a == get_region_status(board.squares, board.N, board.n, board.m)
    IN  \A cell \in Cells(board.N) :
            /\ o.rows[cell[1]] = a.rows[cell[1]].used_mask
            /\ o.cols[cell[2]] = a.cols[cell[2]].used_mask
            /\ o.boxes[get_box_index(o, cell[1], cell[2])]
                 = a.blocks[ScanBlockIndex(board.N, board.n, board.m, cell[1], cell[2])].used_mask
            /\ {board.N * x[1] + x[2] :
                    x \in {y \in Cells(board.N) :
                              get_box_index(o, y[1], y[2]) = get_box_index(o, cell[1], cell[2])}}
                 = CompletionBlock(board, cell[1], cell[2])

----------------------------------------------------------------------------
(* C9 *)

\* C9: the state handed to minimax and the state handed to evaluate_board are
\* unchanged after the call, and the root state is unchanged by each root move:
\* every sibling move is applied to the same parent position.
C9_StatePassedInUnchanged ==
    /\ last.op = "minimax" =>
         /\ last.after = last.before
         /\ game_state = last.parent
    /\ \A id \in 1..2 : evaluate_board(game_state, id).game_state = game_state

\* a second sibling was searched below the root, two plies deep or more
C9_Witness ==
    /\ pc = "for"
    /\ last.op = "minimax"
    /\ depth >= 2
    /\ move_i > 2
    /\ last.before.board # game_state.board

----------------------------------------------------------------------------
(* C10 *)

AllowedOf(gs, player) == IF player = 1 THEN gs.allowed_squares1 ELSE gs.allowed_squares2

HeuristicFor(gs, id) ==
    Heuristics_evaluate_board(gs.board.squares, gs.board.N, gs.board.n, gs.board.m,
                              AllowedOf(gs, id), AllowedOf(gs, 3 - id))

\* C10: evaluate_board(state, my_player_id) does not depend on the side to
\* move: it is 1000 * (score of my_player_id - score of the other) plus the
\* heuristic with my_player_id's cells as mine, and swapping my_player_id
\* negates the real-score term.
C10_EvaluationRelativeToMyPlayer ==
    last.op = "evaluate_board" =>
        \A id \in 1..2 :
            LET as1 == evaluate_board([game_state EXCEPT !.current_player = 1], id).score
                as2 == evaluate_board([game_state EXCEPT !.current_player = 2], id).score
                other == evaluate_board(game_state, 3 - id).score
            IN  /\ as1 = as2
                /\ as1 = 1000 * Scale * (game_state.scores[id - 1] - game_state.scores[2 - id])
                           + HeuristicFor(game_state, id)
                /\ as1 - HeuristicFor(game_state, id)
                     = -(other - HeuristicFor(game_state, 3 - id))
                /\ last.id = id => last.score = as1

\* the evaluation was made for the player not to move, with unequal scores and
\* different cells for the two players
C10_Witness ==
    /\ last.op = "evaluate_board"
    /\ last.id # last.before.current_player
    /\ game_state.scores[0] # game_state.scores[1]
    /\ game_state.allowed_squares1 # game_state.allowed_squares2
    /\ last.score # evaluate_board(game_state, 3 - last.id).score

====
